---- MODULE Spec2Model ----
(***************************************************************************)
(* DriveLens cloud server: frame upload -> YOLO detection -> SQLite log.   *)
(* Model of server/main.py, server/ocr.py and server/database.py.          *)
(*                                                                         *)
(* Numbers: a confidence is an integer count of 1/10000 (0.40 = 4000), a   *)
(* rounded confidence an integer count of 1/1000 (0.91 = 910), a raw box   *)
(* coordinate an integer count of 1/10 pixel, a rounded one a pixel.       *)
(* Python values whose type matters are tagged records [type, v].          *)
(***************************************************************************)
EXTENDS Integers, Sequences, FiniteSets, TLC

VARIABLES
    yolo_model,   \* ocr._yolo_model: "None" or "YOLO"
    loads,        \* number of times YOLO("yolov8n.pt") was constructed
    booted,       \* the startup hook ran or was skipped; requests are served
    dirExists,    \* RECEIVED_DIR exists on disk
    archive,      \* the files written by the server: path -> bytes
    tableExists,  \* the detections table exists in drivelens.db
    table,        \* committed rows of detections, in commit order
    seq,          \* sqlite_sequence.seq of detections (AUTOINCREMENT)
    db_writer,    \* worker whose connection holds the write lock, or NoWorker
    log,          \* per committed row: the request that inserted it, the
                  \* detected_objects it passed and the id returned to it
    now,          \* the server clock, datetime.now()
    started,      \* number of upload requests received so far
    req           \* per worker: the upload request it is handling

vars == <<yolo_model, loads, booted, dirExists, archive, tableExists, table,
          seq, db_writer, log, now, started, req>>

\* ------------------------------------------------------------------ bounds
MaxRequests == 2
MaxBoxes == 3
MaxClock == 1

Workers == {"w1", "w2"}
NoWorker == "none"

\* ------------------------------------------------------------ ocr.py: data
RELEVANT_CLASS_IDS == {0, 1, 2, 3, 5, 7, 9, 11}

COCO_NAMES ==
    (0 :> "person") @@ (1 :> "bicycle") @@ (2 :> "car") @@ (3 :> "motorcycle") @@
    (5 :> "bus") @@ (7 :> "truck") @@ (9 :> "traffic light") @@ (11 :> "sign")

\* 0.40 in units of 1/10000
CONF_THRESHOLD == 4000

CocoNameNoSign(cls_id) ==
    IF cls_id \in DOMAIN COCO_NAMES \ {11} THEN COCO_NAMES[cls_id] ELSE "unknown"

\* dict.get(cls_id, "unknown")
CocoName(cls_id) ==
    IF cls_id \in DOMAIN COCO_NAMES THEN COCO_NAMES[cls_id] ELSE "unknown"

\* round(x) and round(x, 3) on a value given in tenths of the result's unit:
\* to nearest, a tie to the even neighbour
RoundTenths(x) ==
    LET q == x \div 10
        r == x % 10
    IN  IF r < 5 THEN q
        ELSE IF r > 5 THEN q + 1
        ELSE IF q % 2 = 0 THEN q ELSE q + 1

\* `cls_id not in _RELEVANT_CLASS_IDS`
IrrelevantClass(cls_id) == cls_id \notin RELEVANT_CLASS_IDS

BelowThresholdInclusive(conf) == conf <= CONF_THRESHOLD

\* `conf < 0.40`
BelowThreshold(conf) == conf < CONF_THRESHOLD

\* the dict appended for one retained box
MakeObject(box) ==
    [name       |-> CocoName(box.cls),
     confidence |-> RoundTenths(box.conf),
     x_min      |-> RoundTenths(box.xyxy[1]),
     y_min      |-> RoundTenths(box.xyxy[2]),
     x_max      |-> RoundTenths(box.xyxy[3]),
     y_max      |-> RoundTenths(box.xyxy[4])]

PrependObject(acc, i, obj) ==
    [objects |-> <<obj>> \o acc.objects, kept |-> <<i>> \o acc.kept]

\* detected_objects.append(...); kept records which box each entry came from
AppendObject(acc, i, obj) ==
    [objects |-> Append(acc.objects, obj), kept |-> Append(acc.kept, i)]

\* `for box in results[0].boxes:` from box i on; an exception while box number
\* `fault` is converted leaves the loop for the except clause, which only prints
RECURSIVE BoxLoop(_, _, _, _)
BoxLoop(boxes, i, fault, acc) ==
    IF i > Len(boxes) THEN acc
    ELSE IF i = fault THEN acc
    ELSE IF IrrelevantClass(boxes[i].cls) THEN BoxLoop(boxes, i + 1, fault, acc)
    ELSE IF BelowThreshold(boxes[i].conf) THEN BoxLoop(boxes, i + 1, fault, acc)
    ELSE BoxLoop(boxes, i + 1, fault, AppendObject(acc, i, MakeObject(boxes[i])))

NoObjects == [objects |-> <<>>, kept |-> <<>>]

\* The try block of analyze_image on one backend outcome:
\*   kind "raise": yolo(...) raised;  kind "empty": results is falsy;
\*   kind "boxes": results[0].boxes = boxes, fault = 0 (none) or the box that raises
DetectObjects(outcome) ==
    IF outcome.kind = "boxes" THEN BoxLoop(outcome.boxes, 1, outcome.fault, NoObjects)
    ELSE NoObjects

\* ------------------------------------------------------ detection inputs
CarBox == [cls |-> 2,  conf |-> 9100, xyxy |-> <<1200, 450, 3100, 2200>>]
SignBox == [cls |-> 11, conf |-> 4000, xyxy |-> <<5, 15, 25, 36>>]
FaintBox == [cls |-> 0,  conf |-> 3999, xyxy |-> <<100, 100, 200, 200>>]
AirplaneBox == [cls |-> 4,  conf |-> 9500, xyxy |-> <<0, 0, 500, 300>>]
RawBoxes == {CarBox, SignBox, FaintBox, AirplaneBox}

RECURSIVE SeqsUpTo(_, _)
SeqsUpTo(S, n) ==
    IF n = 0 THEN {<<>>}
    ELSE LET shorter == SeqsUpTo(S, n - 1)
         IN  shorter \cup {Append(s, x) : s \in shorter, x \in S}

Outcome(kind, boxes, fault) == [kind |-> kind, boxes |-> boxes, fault |-> fault]
NoOutcome == Outcome("none", <<>>, 0)

\* every backend outcome over RawBoxes with at most MaxBoxes boxes
AllOutcomes ==
    {Outcome("raise", <<>>, 0), Outcome("empty", <<>>, 0)} \cup
    {o \in {Outcome("boxes", b, f) : b \in SeqsUpTo(RawBoxes, MaxBoxes),
                                        f \in 0..MaxBoxes} : o.fault <= Len(o.boxes)}

\* the outcomes the request pipeline is explored with: a backend that raises
\* (no objects) and one that returns a car (one object)
PipelineOutcomes ==
    {Outcome("raise", <<>>, 0), Outcome("boxes", <<CarBox>>, 0)}

\* ------------------------------------------------- database.py: JSON text
\* A JSON text is a sequence of tokens [k, s, n]: k is the token kind, s the
\* text of a string token, n the value of a number token.
Tok(k, s, n) == [k |-> k, s |-> s, n |-> n]
LBRACK == Tok("[", "", 0)
RBRACK == Tok("]", "", 0)
LBRACE == Tok("{", "", 0)
RBRACE == Tok("}", "", 0)
COMMA == Tok(",", "", 0)
COLON == Tok(":", "", 0)
StrTok(s) == Tok("str", s, 0)
IntTok(n) == Tok("int", "", n)
FloatTok(n) == Tok("float", "", n)

\* Python values whose type the code tests or returns as is
PyList(l) == [type |-> "list", v |-> l]
PyStr(t) == [type |-> "str", v |-> t]

\* json.dumps of one detected object (dict order is insertion order)
DumpObject(o) ==
    <<LBRACE,
      StrTok("name"), COLON, StrTok(o.name), COMMA,
      StrTok("confidence"), COLON, FloatTok(o.confidence), COMMA,
      StrTok("x_min"), COLON, IntTok(o.x_min), COMMA,
      StrTok("y_min"), COLON, IntTok(o.y_min), COMMA,
      StrTok("x_max"), COLON, IntTok(o.x_max), COMMA,
      StrTok("y_max"), COLON, IntTok(o.y_max),
      RBRACE>>

RECURSIVE DumpElements(_, _)
DumpElements(objects, i) ==
    IF i > Len(objects) THEN <<>>
    ELSE (IF i > 1 THEN <<COMMA>> ELSE <<>>) \o DumpObject(objects[i])
         \o DumpElements(objects, i + 1)

JsonDumpsEmptyAsBlank(objects) ==
    IF objects = <<>> THEN <<>>
    ELSE <<LBRACK>> \o DumpElements(objects, 1) \o <<RBRACK>>

\* json.dumps(detected_objects, ensure_ascii=False)
JsonDumps(objects) == <<LBRACK>> \o DumpElements(objects, 1) \o <<RBRACK>>

\* value of a scalar token
ScalarOf(tok) == IF tok.k = "str" THEN tok.s ELSE tok.n

\* members of an object from token i (a key) on; result: the dict and the
\* position after the closing brace
RECURSIVE ParseMembers(_, _, _)
ParseMembers(toks, i, acc) ==
    LET d == acc @@ (toks[i].s :> ScalarOf(toks[i + 2]))
    IN  IF toks[i + 3] = COMMA THEN ParseMembers(toks, i + 4, d)
        ELSE [val |-> d, next |-> i + 4]

ParseObject(toks, i) ==
    IF toks[i + 1] = RBRACE THEN [val |-> <<>>, next |-> i + 2]
    ELSE ParseMembers(toks, i + 1, <<>>)

\* elements of an array from token i (an element) on
RECURSIVE ParseElements(_, _, _)
ParseElements(toks, i, acc) ==
    LET e == ParseObject(toks, i)
        l == Append(acc, e.val)
    IN  IF toks[e.next] = COMMA THEN ParseElements(toks, e.next + 1, l)
        ELSE l

\* json.loads of an array of objects
JsonLoads(toks) ==
    IF toks[2] = RBRACK THEN <<>> ELSE ParseElements(toks, 2, <<>>)

\* -------------------------------------------------------- database.py: rows
Row(id, filename, text, timestamp) ==
    [id |-> id, filename |-> filename, detected_objects |-> text,
     timestamp |-> timestamp]

RECURSIVE MaxId(_)
MaxId(rows) ==
    IF rows = <<>> THEN 0
    ELSE LET m == MaxId(Tail(rows))
         IN  IF Head(rows).id > m THEN Head(rows).id ELSE m

ReusedRowId(s, rows) == IF s > MaxId(rows) THEN s ELSE MaxId(rows)

\* INTEGER PRIMARY KEY AUTOINCREMENT: one more than the largest id ever used
NextRowId(s, rows) == (IF s > MaxId(rows) THEN s ELSE MaxId(rows)) + 1

\* datetime.now().isoformat()
IsoFormat(t) == "T" \o ToString(t)

\* the row insert_detection writes
NewRow(id, filename, detected_objects, t) ==
    Row(id, filename, PyStr(JsonDumps(detected_objects)), IsoFormat(t))

RowCount(row) == 1

\* cur.lastrowid after the INSERT
LastRowId(row) == row.id

\* the rows with ids below `bound`, largest id first
RECURSIVE Descending(_, _)
Descending(rows, bound) ==
    LET below == {i \in 1..Len(rows) : rows[i].id < bound}
    IN  IF below = {} THEN <<>>
        ELSE LET top == CHOOSE i \in below : \A j \in below : rows[j].id <= rows[i].id
             IN  <<rows[top]>> \o Descending(rows, rows[top].id)

InsertionOrder(rows) == rows

\* SELECT * FROM detections ORDER BY id DESC
SelectAllOrderByIdDesc(rows) == Descending(rows, MaxId(rows) + 1)

\* `if d.get("detected_objects")`: a non-empty str
Truthy(value) == value.type = "str" /\ Len(value.v) > 0

\* the dict built for one row
RowDict(r) ==
    [r EXCEPT !.detected_objects =
        IF Truthy(@) THEN PyList(JsonLoads(@.v)) ELSE @]

get_all_detections(rows) ==
    LET sel == SelectAllOrderByIdDesc(rows)
    IN  [i \in 1..Len(sel) |-> RowDict(sel[i])]

\* ------------------------------------------------------- main.py: requests
EmptyBytes == <<>>
GarbageBytes == <<0, 1, 2>>
JpegBytes == <<255, 216, 255>>
Payloads == {EmptyBytes, GarbageBytes, JpegBytes}

\* file.filename as sent by the client; "" stands for an omitted name too
ClientNames == {"", "a.jpg"}

\* a client name that is an absolute path
AbsoluteNames == {"/tmp/a.jpg"}

\* the uploads a client sends: <<contents, file.filename>>
Uploads ==
    (Payloads \X ClientNames) \cup {<<JpegBytes, name>> : name \in AbsoluteNames}

RECEIVED_DIR == "received_images"

\* pathlib's `dir / filename`: an absolute right operand replaces the left one
PathJoin(dir, filename) ==
    IF filename \in AbsoluteNames THEN filename ELSE dir \o "/" \o filename

\* the parent directory of RECEIVED_DIR / filename exists
ParentExists(filename) == dirExists \/ filename \in AbsoluteNames

AlwaysImage(image_bytes) == [ok |-> TRUE, h |-> 0, w |-> 0]

\* _bytes_to_np: the pixel grid of a decodable payload, or Image.open raises
bytes_to_np(image_bytes) ==
    IF image_bytes = JpegBytes THEN [ok |-> TRUE, h |-> 480, w |-> 640]
    ELSE [ok |-> FALSE, h |-> 0, w |-> 0]

NeverEmpty(contents) == FALSE

\* `not contents`
IsEmpty(contents) == Len(contents) = 0

\* datetime.now().strftime("%Y%m%d_%H%M%S_%f")
StrfTime(t) == ToString(t)

\* `file.filename if file.filename else f"frame_{timestamp}.jpg"`
ResolveFilename(name, t) ==
    IF name # "" THEN name ELSE "frame_" \o StrfTime(t) \o ".jpg"

HTTPException(status_code, detail) ==
    [type |-> "HTTPException", status_code |-> status_code, detail |-> detail]
Exception(detail) ==
    [type |-> "Exception", status_code |-> 0, detail |-> detail]

NoResponse == [status |-> 0, detail |-> "", filename |-> "", size_bytes |-> 0,
               image_width |-> 0, image_height |-> 0,
               detected_objects |-> <<>>, db_id |-> 0]

ErrorResponse(status, detail) ==
    [NoResponse EXCEPT !.status = status, !.detail = detail]

AlwaysServerError(exc) == ErrorResponse(500, exc.detail)

AlwaysClientError(exc) == ErrorResponse(400, exc.detail)

\* the except clauses of upload_frame: an HTTPException is re-raised as it is,
\* anything else becomes HTTPException(500, str(e))
HandleException(exc) ==
    IF exc.type = "HTTPException" THEN ErrorResponse(exc.status_code, exc.detail)
    ELSE ErrorResponse(500, exc.detail)

NoImage == [ok |-> FALSE, h |-> 0, w |-> 0]
NoException == [type |-> "none", status_code |-> 0, detail |-> ""]
NoRow == Row(0, "", PyStr(<<>>), "")

IdleRequest ==
    [pc |-> "idle", rid |-> 0, contents |-> <<>>, name |-> "", filename |-> "",
     image |-> NoImage, outcome |-> NoOutcome, objects |-> <<>>, kept |-> <<>>,
     row |-> NoRow, exc |-> NoException, response |-> NoResponse]

\* the dict upload_frame returns
OkResponse(r, row_id) ==
    [status |-> 200, detail |-> "ok", filename |-> r.filename,
     size_bytes |-> Len(r.contents), image_width |-> r.image.w,
     image_height |-> r.image.h, detected_objects |-> r.objects, db_id |-> row_id]

Accepted(r) == r.pc = "done" /\ r.response.status = 200
Rejected(r) == r.pc = "done" /\ r.response.status # 200

\* exception exc leaves the try block of upload_frame: the request is over,
\* with the response its except clauses make of exc
Failed(r, exc) ==
    [r EXCEPT !.pc = "done", !.exc = exc, !.response = HandleException(exc)]

Retry(w, exc) == req' = req

\* the request of worker w ends with the response for exception exc
Raise(w, exc) == req' = [req EXCEPT ![w] = Failed(req[w], exc)]

\* save_path.write_bytes(contents): creates the file or replaces its bytes
Write(files, filename, contents) ==
    [f \in DOMAIN files \cup {filename} |->
        IF f = filename THEN contents ELSE files[f]]

\* ---------------------------------------------------------------- actions
Init ==
    /\ yolo_model = "None"
    /\ loads = 0
    /\ booted = FALSE
    /\ dirExists \in BOOLEAN
    /\ archive = [f \in {} |-> <<>>]
    /\ tableExists = FALSE
    /\ table = <<>>
    /\ seq = 0
    /\ db_writer = NoWorker
    /\ log = <<>>
    /\ now = 0
    /\ started = 0
    /\ req = [w \in Workers |-> IdleRequest]

\* startup(): mkdir, init_db(), load_models(); runs before any request is served
Startup ==
    /\ ~booted
    /\ started = 0
    /\ booted' = TRUE
    /\ dirExists' = TRUE
    /\ tableExists' = TRUE
    /\ yolo_model' = "YOLO"
    /\ loads' = loads + 1
    /\ UNCHANGED <<archive, table, seq, db_writer, log, now, started, req>>

InitDbDropping ==
    /\ tableExists' = TRUE
    /\ table' = <<>>
    /\ UNCHANGED <<yolo_model, loads, booted, dirExists, archive, seq,
                   db_writer, log, now, started, req>>

InitDbResetSequence ==
    /\ tableExists' = TRUE
    /\ seq' = 0
    /\ UNCHANGED <<yolo_model, loads, booted, dirExists, archive, table,
                   db_writer, log, now, started, req>>

\* init_db(): CREATE TABLE IF NOT EXISTS
InitDb ==
    /\ tableExists' = TRUE
    /\ UNCHANGED <<yolo_model, loads, booted, dirExists, archive, table, seq,
                   db_writer, log, now, started, req>>

\* a later reading of the clock
Later(t) == t..MaxClock

\* the first free worker takes the next request (workers are interchangeable)
FirstFree(w) ==
    /\ req[w].pc \in {"idle", "done"}
    /\ w = "w2" => req["w1"].pc \notin {"idle", "done"}

\* `contents = await file.read()` and
\* `if not contents: raise HTTPException(status_code=400, ...)`
Receive(w) ==
    /\ FirstFree(w)
    /\ started < MaxRequests
    /\ started' = started + 1
    /\ \E upload \in Uploads :
          LET contents == upload[1]
              r == [IdleRequest EXCEPT !.rid = started + 1,
                                       !.contents = contents, !.name = upload[2]]
          IN  req' = [req EXCEPT ![w] =
                  IF IsEmpty(contents)
                  THEN Failed(r, HTTPException(400, "Empty file received."))
                  ELSE [r EXCEPT !.pc = "save"]]
    /\ UNCHANGED <<yolo_model, loads, booted, dirExists, archive, tableExists,
                   table, seq, db_writer, log, now>>

\* step 1: resolve the filename and write the bytes under RECEIVED_DIR
SaveImage(w) ==
    /\ req[w].pc = "save"
    /\ \E t \in Later(now) :
          LET filename == ResolveFilename(req[w].name, t)
          IN  /\ now' = t
              /\ IF ParentExists(filename)
                 THEN /\ archive' = Write(archive, PathJoin(RECEIVED_DIR, filename),
                                          req[w].contents)
                      /\ req' = [req EXCEPT ![w].pc = "get_model",
                                            ![w].filename = filename]
                 ELSE /\ archive' = archive
                      /\ req' = [req EXCEPT ![w] =
                                    Failed([req[w] EXCEPT !.filename = filename],
                                           Exception("No such file or directory"))]
    /\ UNCHANGED <<yolo_model, loads, booted, dirExists, tableExists, table, seq,
                   db_writer, log, started>>

GetModelNoLazy(w) ==
    /\ req[w].pc = "get_model"
    /\ req' = [req EXCEPT ![w].pc = "analyze"]
    /\ UNCHANGED <<yolo_model, loads, booted, dirExists, archive, tableExists,
                   table, seq, db_writer, log, now, started>>

\* _get_model(): `if _yolo_model is None`
GetModel(w) ==
    /\ req[w].pc = "get_model"
    /\ req' = [req EXCEPT ![w].pc =
                  IF yolo_model = "None" THEN "load_models" ELSE "analyze"]
    /\ UNCHANGED <<yolo_model, loads, booted, dirExists, archive, tableExists,
                   table, seq, db_writer, log, now, started>>

\* load_models() called from _get_model()
LazyLoad(w) ==
    /\ req[w].pc = "load_models"
    /\ yolo_model' = "YOLO"
    /\ loads' = loads + 1
    /\ req' = [req EXCEPT ![w].pc = "analyze"]
    /\ UNCHANGED <<booted, dirExists, archive, tableExists, table, seq,
                   db_writer, log, now, started>>

\* the rest of analyze_image: `_bytes_to_np(image_bytes)`, which raises into
\* upload_frame, then the try/except around the backend on an outcome drawn
\* from `outcomes`
AnalyzeWith(w, outcomes) ==
    /\ req[w].pc = "analyze"
    /\ LET image == bytes_to_np(req[w].contents)
       IN  IF image.ok
           THEN \E o \in outcomes :
                   LET d == DetectObjects(o)
                   IN  req' = [req EXCEPT ![w].pc = "insert", ![w].image = image,
                                          ![w].outcome = o, ![w].objects = d.objects,
                                          ![w].kept = d.kept]
           ELSE Raise(w, Exception("cannot identify image file"))
    /\ UNCHANGED <<yolo_model, loads, booted, dirExists, archive, tableExists,
                   table, seq, db_writer, log, now, started>>

Analyze(w) == AnalyzeWith(w, PipelineOutcomes)

\* insert_detection: conn.execute(INSERT ...) takes the write lock and assigns
\* the id; it raises when the table is missing or another connection holds the
\* lock until the busy timeout
InsertExecute(w) ==
    /\ req[w].pc = "insert"
    /\ \E t \in Later(now) : now' = t
    /\ IF ~tableExists
       THEN /\ Raise(w, Exception("no such table: detections"))
            /\ db_writer' = db_writer
       ELSE IF db_writer # NoWorker
       THEN /\ Raise(w, Exception("database is locked"))
            /\ db_writer' = db_writer
       ELSE /\ db_writer' = w
            /\ req' = [req EXCEPT ![w].pc = "commit", ![w].kept = <<>>,
                          ![w].row = NewRow(NextRowId(seq, table), req[w].filename,
                                            req[w].objects, now')]
    /\ UNCHANGED <<yolo_model, loads, booted, dirExists, archive, tableExists,
                   table, seq, log, started>>

\* conn.commit(), row_id = cur.lastrowid, and the return of upload_frame; a
\* commit that raises rolls the transaction back
InsertCommit(w) ==
    /\ req[w].pc = "commit"
    /\ db_writer' = NoWorker
    /\ \E committed \in BOOLEAN :
          IF committed
          THEN /\ table' = Append(table, req[w].row)
               /\ seq' = req[w].row.id
               /\ log' = Append(log, [rid |-> req[w].rid,
                                      inserted |-> req[w].objects,
                                      returned |-> LastRowId(req[w].row)])
               /\ req' = [req EXCEPT ![w].pc = "done",
                             ![w].response = OkResponse(req[w], LastRowId(req[w].row))]
          ELSE /\ Raise(w, Exception("disk I/O error"))
               /\ UNCHANGED <<table, seq, log>>
    /\ UNCHANGED <<yolo_model, loads, booted, dirExists, archive, tableExists,
                   now, started>>

\* list_detections(): the response of GET /detections in the current state
\* (a missing table makes the SELECT raise)
list_detections ==
    IF tableExists THEN [status |-> 200, body |-> get_all_detections(table)]
    ELSE [status |-> 500, body |-> <<>>]

\* GET /detections is served: it reads the table and changes nothing
ListDetections ==
    /\ list_detections.status \in {200, 500}
    /\ UNCHANGED vars

Next ==
    \/ Startup
    \/ InitDb
    \/ ListDetections
    \/ \E w \in Workers : Receive(w)
    \/ \E w \in Workers : SaveImage(w)
    \/ \E w \in Workers : GetModel(w)
    \/ \E w \in Workers : LazyLoad(w)
    \/ \E w \in Workers : Analyze(w)
    \/ \E w \in Workers : InsertExecute(w)
    \/ \E w \in Workers : InsertCommit(w)

Spec == Init /\ [][Next]_vars

\* every step of a request in flight is a blocking call that returns or raises
FairSpec ==
    /\ Spec
    /\ \A w \in Workers :
          /\ WF_vars(SaveImage(w))
          /\ WF_vars(GetModel(w))
          /\ WF_vars(LazyLoad(w))
          /\ WF_vars(Analyze(w))
          /\ WF_vars(InsertExecute(w))
          /\ WF_vars(InsertCommit(w))

\* One call of analyze_image, entered by worker w1 from upload_frame with the
\* bytes already archived, on every backend outcome of AllOutcomes.
InitAnalyze ==
    /\ yolo_model \in {"None", "YOLO"}
    /\ loads = (IF yolo_model = "YOLO" THEN 1 ELSE 0)
    /\ booted = (yolo_model = "YOLO")
    /\ dirExists = TRUE
    /\ tableExists = booted
    /\ table = <<>>
    /\ seq = 0
    /\ db_writer = NoWorker
    /\ log = <<>>
    /\ now = 0
    /\ started = 1
    /\ \E contents \in {JpegBytes, GarbageBytes} :
          /\ archive = (PathJoin(RECEIVED_DIR, "a.jpg") :> contents)
          /\ req = [w \in Workers |->
                       IF w = "w1"
                       THEN [IdleRequest EXCEPT !.pc = "get_model", !.rid = 1,
                                !.contents = contents, !.name = "a.jpg",
                                !.filename = "a.jpg"]
                       ELSE IdleRequest]

AnalyzeAny(w) == AnalyzeWith(w, AllOutcomes)

NextAnalyze ==
    \/ \E w \in Workers : GetModel(w)
    \/ \E w \in Workers : LazyLoad(w)
    \/ \E w \in Workers : AnalyzeAny(w)

SpecAnalyze == InitAnalyze /\ [][NextAnalyze]_vars

\* ------------------------------------------------------------------ claims
\* rows of the log written by the request worker w is handling
RowsOf(w) == {i \in 1..Len(log) : log[i].rid = req[w].rid}

\* `rounded` is within half a unit of `raw`, given in tenths of the unit
Near(rounded, raw) == rounded * 10 - raw \in -5..5

\* analyze_image has just returned to worker w
Analyzed(w) == req[w].pc = "insert"

\* C1: an upload with a zero-length payload never gets past validation, ends
\* Rejected with status 400, and inserts no record.
C1_EmptyUploadIsClientError ==
    \A w \in Workers :
        (req[w].pc # "idle" /\ Len(req[w].contents) = 0) =>
            /\ req[w].pc = "done"
            /\ RowsOf(w) = {}
            /\ req[w].pc = "done" => req[w].response.status = 400

C1_Witness ==
    \E w \in Workers :
        /\ req[w].pc = "done"
        /\ Len(req[w].contents) = 0
        /\ req[w].response.status = 400
        /\ Len(table) > 0

\* C2: without a fault, box i of the backend's output is retained exactly
\* when its class id is in {0,1,2,3,5,7,9,11} and its confidence is >= 0.40,
\* and the output holds the retained boxes' objects and nothing else.
C2_FilterPolicy ==
    \A w \in Workers :
        (Analyzed(w) /\ req[w].outcome.kind = "boxes" /\ req[w].outcome.fault = 0) =>
            LET boxes == req[w].outcome.boxes
                kept  == req[w].kept
            IN  /\ \A i \in 1..Len(boxes) :
                      (\E j \in 1..Len(kept) : kept[j] = i) <=>
                          (/\ boxes[i].cls \in {0, 1, 2, 3, 5, 7, 9, 11}
                           /\ boxes[i].conf >= 4000)
                /\ \A j, k \in 1..Len(kept) : kept[j] = kept[k] => j = k
                /\ Len(req[w].objects) = Len(kept)
                /\ \A j \in 1..Len(kept) :
                      /\ kept[j] \in 1..Len(boxes)
                      /\ Near(req[w].objects[j].confidence, boxes[kept[j]].conf)
                      /\ Near(req[w].objects[j].x_min, boxes[kept[j]].xyxy[1])
                      /\ Near(req[w].objects[j].y_max, boxes[kept[j]].xyxy[4])

\* a box at exactly 0.40 is kept next to a fainter one and an unlisted class
C2_Witness ==
    \E w \in Workers :
        /\ Analyzed(w)
        /\ req[w].outcome = Outcome("boxes", <<FaintBox, SignBox, AirplaneBox>>, 0)
        /\ req[w].kept = <<2>>

\* C3: when the detection step fails, analyze_image returns normally and the
\* objects it reports are empty.
C3_FaultReportsNoObjects ==
    \A w \in Workers :
        (/\ Analyzed(w)
         /\ \/ req[w].outcome.kind = "raise"
            \/ req[w].outcome.kind = "boxes" /\ req[w].outcome.fault > 0) =>
            req[w].objects = <<>>

\* C4: a non-empty payload that does not decode ends Rejected with status 500
\* and inserts no record.
C4_UndecodableIsServerError ==
    \A w \in Workers :
        req[w].contents = GarbageBytes =>
            /\ req[w].pc \notin {"insert", "commit"}
            /\ RowsOf(w) = {}
            /\ req[w].pc = "done" => req[w].response.status = 500

\* the decode failed after the bytes were archived
C4_Witness ==
    \E w \in Workers :
        /\ req[w].pc = "done"
        /\ req[w].contents = GarbageBytes
        /\ req[w].response = ErrorResponse(500, "cannot identify image file")
        /\ PathJoin(RECEIVED_DIR, req[w].filename) \in DOMAIN archive
        /\ archive[PathJoin(RECEIVED_DIR, req[w].filename)] = GarbageBytes

\* C5: an Accepted request inserted exactly one record, whose id, filename and
\* detected_objects are those of its response; a Rejected request inserted
\* none; a request in flight has inserted none.
C5_OneRecordPerAccepted ==
    \A w \in Workers :
        /\ Accepted(req[w]) =>
              /\ Cardinality(RowsOf(w)) = 1
              /\ \A i \in RowsOf(w) :
                    /\ table[i].id = req[w].response.db_id
                    /\ table[i].filename = req[w].response.filename
                    /\ table[i].filename = req[w].filename
                    /\ req[w].name # "" => table[i].filename = req[w].name
                    /\ RowDict(table[i]).detected_objects =
                          PyList(req[w].response.detected_objects)
        /\ ~Accepted(req[w]) => RowsOf(w) = {}

\* both workers were Accepted, one after the other's insert
C5_Witness ==
    /\ \A w \in Workers : Accepted(req[w])
    /\ Len(table) = 2
    /\ \E w \in Workers : req[w].response.detected_objects # <<>>

\* C6: in commit order the ids of the rows, and the ids returned to the
\* callers, are strictly increasing (so pairwise distinct).
C6_IdsStrictlyIncreasing ==
    \A i, j \in 1..Len(table) :
        i < j => /\ table[i].id < table[j].id
                 /\ log[i].returned < log[j].returned

\* the inserts of two workers' requests both committed and returned their ids
C6_Witness ==
    /\ Len(table) >= 2
    /\ \A w \in Workers : Accepted(req[w])
    /\ \E w, v \in Workers : req[w].response.db_id < req[v].response.db_id

\* C7: every record comes back from get_all_detections with detected_objects
\* equal, as a list, to the sequence insert_detection was given.
C7_RoundTrip ==
    tableExists =>
        LET body == list_detections.body
        IN  \A i \in 1..Len(table) :
                \E j \in 1..Len(body) :
                    /\ body[j].id = table[i].id
                    /\ body[j].detected_objects = PyList(log[i].inserted)

\* an empty and a non-empty sequence were both stored and listed
C7_Witness ==
    /\ Len(table) >= 2
    /\ \E i \in 1..Len(log) : log[i].inserted = <<>>
    /\ \E i \in 1..Len(log) : log[i].inserted # <<>>
    /\ list_detections.status = 200

\* C8: get_all_detections returns each stored record exactly once, ids
\* strictly descending, the last committed first.
C8_ListIsAllDescending ==
    tableExists =>
        LET body == list_detections.body
        IN  /\ Len(body) = Len(table)
            /\ \A i \in 1..Len(table) :
                  Cardinality({j \in 1..Len(body) :
                                  /\ body[j].id = table[i].id
                                  /\ body[j].filename = table[i].filename
                                  /\ body[j].timestamp = table[i].timestamp}) = 1
            /\ \A j, k \in 1..Len(body) : j < k => body[j].id > body[k].id
            /\ Len(table) > 0 => body[1].id = table[Len(table)].id

C8_Witness ==
    /\ Len(table) >= 2
    /\ list_detections.status = 200
    /\ Len(list_detections.body) >= 2

\* C9: the model is constructed at most once in the life of the process.
C9_LoadedAtMostOnce == loads <= 1

\* C10: the objects returned are those of a subsequence of the backend's
\* boxes: a strictly increasing choice of boxes gives them in order.
C10_OrderPreserved ==
    \A w \in Workers :
        (Analyzed(w) /\ req[w].outcome.kind = "boxes") =>
            LET boxes == req[w].outcome.boxes
                out   == req[w].objects
            IN  \E f \in [1..Len(out) -> 1..Len(boxes)] :
                    /\ \A j, k \in 1..Len(out) : j < k => f[j] < f[k]
                    /\ \A j \in 1..Len(out) : out[j] = MakeObject(boxes[f[j]])

\* two different retained objects, with a dropped box between them
C10_Witness ==
    \E w \in Workers :
        /\ Analyzed(w)
        /\ req[w].outcome = Outcome("boxes", <<SignBox, FaintBox, CarBox>>, 0)
        /\ Len(req[w].objects) = 2
        /\ req[w].objects[1].name = "sign"
        /\ req[w].objects[2].name = "car"

\* the request of worker w is between its first and its last step
InFlight(w) == req[w].pc \notin {"idle", "done"}

\* the detection step of worker w's request failed inside the detector
DetectorFault(w) ==
    \/ req[w].outcome.kind = "raise"
    \/ req[w].outcome.kind = "boxes" /\ req[w].outcome.fault > 0

\* C11: no step changes or removes an existing record; the table grows only
\* by one record at a time, appended by the commit of insert_detection.
C11_AppendOnly ==
    [][/\ Len(table') >= Len(table)
       /\ \A i \in 1..Len(table) : table'[i] = table[i]
       /\ table' # table =>
             \E w \in Workers :
                 /\ req[w].pc = "commit"
                 /\ table' = Append(table, req[w].row)]_vars

\* a record exists and a later upload was rejected beside it
C11_Witness ==
    /\ Len(table) >= 1
    /\ tableExists
    /\ \E w \in Workers : Rejected(req[w]) /\ req[w].rid > log[1].rid

\* C12: a request ended by an exception of the archive write, the decode or
\* the insert is Rejected with status 500 and the exception's message; status
\* 400 comes only from the empty payload; a request that raised nothing is
\* Accepted with one record, also when its detection failed inside the detector.
C12_FaultsAreServerErrors ==
    \A w \in Workers :
        req[w].pc = "done" =>
            /\ req[w].exc.type = "Exception" =>
                  /\ req[w].response.status = 500
                  /\ req[w].response.detail = req[w].exc.detail
                  /\ Len(req[w].contents) > 0
            /\ req[w].response.status = 400 => Len(req[w].contents) = 0
            /\ req[w].exc.type = "none" =>
                  /\ req[w].response.status = 200
                  /\ Cardinality(RowsOf(w)) = 1
            /\ req[w].response.status = 200 => req[w].exc.type = "none"
            /\ DetectorFault(w) =>
                  \/ req[w].exc.type = "none"
                  \/ req[w].exc.detail \in {"no such table: detections",
                                            "database is locked", "disk I/O error"}

\* the backend raised, and the request was Accepted with its record
C12_Witness ==
    \E w \in Workers :
        /\ Accepted(req[w])
        /\ req[w].outcome.kind = "raise"
        /\ Cardinality(RowsOf(w)) = 1
        /\ \E v \in Workers : Rejected(req[v]) /\ req[v].exc.type = "Exception"

\* the frame archive, the files directly under RECEIVED_DIR, has an entry
\* named filename
InArchive(filename) ==
    /\ filename \notin AbsoluteNames
    /\ PathJoin(RECEIVED_DIR, filename) \in DOMAIN archive

\* C13: every request past the archive write, Accepted ones included, and
\* every stored record has an entry in the frame archive under its filename.
C13_ArchivedBeforeRecorded ==
    /\ \A w \in Workers :
          (req[w].pc \in {"get_model", "load_models", "analyze", "insert", "commit"}
              \/ Accepted(req[w]))
              => InArchive(req[w].filename)
    /\ \A i \in 1..Len(table) : InArchive(table[i].filename)

\* C14: init_db changes nothing but the existence of the table: records, the
\* id sequence and everything else stay, a repeated call changes nothing at
\* all, and no stored id is above the sequence the next id is taken from.
C14_InitDbIdempotent ==
    [][/\ InitDb =>
             /\ table' = table
             /\ seq' = seq
             /\ log' = log
             /\ archive' = archive
             /\ tableExists => UNCHANGED vars
       /\ \A i \in 1..Len(table') : table'[i].id <= seq']_vars

\* the table was made by init_db alone and has taken an insert since
C14_Witness ==
    /\ ~booted
    /\ tableExists
    /\ Len(table) >= 1
    /\ seq >= 1

\* C15: a request in flight eventually ends, and an ended request keeps its
\* one response until the worker takes the next request.
C15_RequestsTerminate ==
    /\ \A w \in Workers : InFlight(w) ~> (req[w].pc = "done")
    /\ [][\A w \in Workers :
             (req[w].pc = "done" /\ req'[w].rid = req[w].rid) => req'[w] = req[w]]_vars

\* one request was Accepted and another, past validation, was Rejected
C15_Witness ==
    \E w, v \in Workers :
        /\ Accepted(req[w])
        /\ Rejected(req[v])
        /\ Len(req[v].contents) > 0

\* C16: the backend is only reached with the model loaded: a request at or
\* past the detection step, lazily initialised or not, sees _yolo_model set.
C16_BackendHasModel ==
    \A w \in Workers :
        (req[w].pc \in {"analyze", "insert", "commit"} \/ req[w].outcome.kind # "none")
            => yolo_model = "YOLO"

\* startup was skipped, a request loaded the model itself and was Accepted
C16_Witness ==
    /\ ~booted
    /\ loads >= 1
    /\ \E w \in Workers : Accepted(req[w])

\* C17: every allow-listed class id has a label, and no object returned
\* by analyze_image is named "unknown".
C17_NoUnknownLabel ==
    /\ \A c \in RELEVANT_CLASS_IDS : CocoName(c) # "unknown"
    /\ \A w \in Workers :
          \A j \in 1..Len(req[w].objects) : req[w].objects[j].name # "unknown"

C17_Witness ==
    \E w \in Workers :
        /\ Analyzed(w)
        /\ req[w].outcome = Outcome("boxes", <<CarBox, AirplaneBox, SignBox>>, 0)
        /\ Len(req[w].objects) = 2
        /\ req[w].objects[2].name = "sign"

\* C18: the step that receives an empty payload ends the request at once and
\* changes neither the archive, nor the model, nor the store; a request with
\* an empty payload is never in flight.
C18_EmptyUploadNoSideEffects ==
    [][\A w \in Workers :
          /\ (req'[w].rid # req[w].rid /\ Len(req'[w].contents) = 0) =>
                /\ req'[w].pc = "done"
                /\ req'[w].outcome = NoOutcome
                /\ req'[w].filename = ""
                /\ archive' = archive
                /\ dirExists' = dirExists
                /\ yolo_model' = yolo_model
                /\ loads' = loads
                /\ table' = table
                /\ seq' = seq
                /\ db_writer' = db_writer
          /\ Len(req'[w].contents) = 0 => ~InFlight(w)']_vars

\* an empty upload named like an archived frame left that frame as it was
C18_Witness ==
    \E w \in Workers :
        /\ req[w].pc = "done"
        /\ Len(req[w].contents) = 0
        /\ req[w].name = "a.jpg"
        /\ PathJoin(RECEIVED_DIR, "a.jpg") \in DOMAIN archive
        /\ Len(archive[PathJoin(RECEIVED_DIR, "a.jpg")]) > 0

====
